---- MODULE Spec2Model ----
(***************************************************************************)
(* The real-time room-subscription engine of NeuralFlow's backend          *)
(* (src/src/workers/socketManager.js) as a state machine: the connection   *)
(* registry userSockets, the transport-level room membership of every      *)
(* socket, the Redis set userRooms:<uid> of every user, the commands in    *)
(* flight on the single Redis client, and the events delivered to clients. *)
(***************************************************************************)
EXTENDS Naturals, Sequences, FiniteSets, TLC

\* ------------------------------------------------------------------ bounds
MaxConns == 3       \* sockets opened in one behaviour
MaxPending == 2     \* Redis commands in flight at once
MaxEvents == 3      \* events published in one behaviour
MaxPublished == 1   \* events published in one behaviour of the delivery fabric
MaxOrderConns == 2  \* sockets opened in one behaviour of the event sequence
MaxMessageConns == 2  \* handshakes attempted in one behaviour of the message traffic
MaxCmds == 2        \* subscription commands processed in one behaviour
MaxOutages == 1     \* times the connection to Redis drops in one behaviour
MaxLifecycleConns == 2  \* sockets opened in one behaviour that starts at startup

\* ------------------------------------------------------- program constants
MaxRetries == 3     \* reconnectStrategy: retries > 3 gives up
BackoffStep == 100  \* reconnectStrategy: retries * 100
BackoffCap == 3000  \* reconnectStrategy: Math.min(..., 3000)

\* ------------------------------------------------------------ input domains
Identities == {"u1", "u2"}
NoUid == "none"
Conns == 1..MaxConns

\* what the handshake middleware left on the socket: socket.isWorker and
\* socket.user?.uid (NoUid when the decoded token carries no uid)
Handshakes ==
  { [isWorker |-> TRUE, uid |-> "u1"],
    [isWorker |-> FALSE, uid |-> NoUid],
    [isWorker |-> FALSE, uid |-> "u1"],
    [isWorker |-> FALSE, uid |-> "u2"] }

\* payloads of the subscribe / unsubscribe messages clients send
Payloads ==
  { [type |-> "project", id |-> "77"],
    [type |-> "user", id |-> "u1"] }

\* ai:result messages a worker sends
AiResults ==
  { [type |-> "summary", taskId |-> "t1", projectId |-> "77", data |-> "d1"],
    [type |-> "priority", taskId |-> "t1", projectId |-> "77", data |-> "d1"] }

TaskIds == {"9"}
ProjectIds == {"77"}

\* `${type}:${id}`
RoomName(type, id) == type \o ":" \o id

\* `user:${userId}`
PersonalRoom(userId) == RoomName("user", userId)

\* `userRooms:${userId}`
userRoomsKey(userId) == "userRooms:" \o userId

StoreKeys == { userRoomsKey(u) : u \in Identities }

Rooms ==
  { RoomName(p.type, p.id) : p \in Payloads }
    \cup { PersonalRoom(u) : u \in Identities }
    \cup { RoomName("project", p) : p \in ProjectIds }
    \cup { RoomName("task", t) : t \in TaskIds }

\* rooms joinUserSocketsToRoom is called with
JoinRooms == { RoomName("task", t) : t \in TaskIds }

VARIABLES
  nconn,        \* number of sockets opened so far; socket ids are 1..nconn
  handshake,    \* handshake[c]: socket.isWorker and socket.user.uid of socket c
  live,         \* live[c]: socket c is connected (it is in io.sockets.sockets)
  pc,           \* pc[c]: how far the connection handler of socket c has run
  rooms,        \* rooms[c]: the rooms socket c is joined to (the adapter)
  userSockets,  \* the Map userId -> Set of socket ids
  store,        \* store[key]: the members of the Redis set at key
  redis,        \* state of redisClient: "ready", "reconnecting" or "closed"
  retries,      \* failed reconnection attempts since the connection dropped
  pending,      \* commands sent on redisClient and not yet answered, in order
  inbox,        \* inbox[c]: events delivered to the client of socket c
  published,    \* every io.to(room).emit(...), in order
  ncmd,         \* client messages and service calls handled so far
  nout,         \* connection drops of redisClient so far
  up,           \* the Redis server accepted the last connection attempt
  proc,         \* the server process: "starting", "running" or "exited"
  \* history variables, read by the properties only
  everSub,      \* everSub[u]: rooms a subscription was ever processed for
  addApplied,   \* addApplied[u]: rooms an sAdd of u was ever applied for
  subOK,        \* subOK[u]: sAdd applied, no unsubscribe processed since
  unsubbed,     \* unsubbed[u]: unsubscribe processed, no subscribe since
  unsubOK,      \* unsubOK[u]: as unsubbed, and the sRem was applied
  unsubAtOpen,  \* unsubAtOpen[c]: unsubbed[u] when c connected, less later subscribes
  lostAtOpen,   \* lostAtOpen[c]: rooms of u whose every sAdd had failed when c connected
  readResult,   \* readResult[c]: how the sMembers read of connected socket c was answered
  explicit      \* explicit[c]: rooms c subscribed to and did not itself unsubscribe

sockVars == <<nconn, handshake, live, pc, rooms, userSockets>>
storeVars == <<store, redis, retries, pending>>
pubVars == <<inbox, published>>
budgetVars == <<ncmd, nout>>
envVars == <<up, proc>>
histVars == <<everSub, addApplied, subOK, unsubbed, unsubOK, unsubAtOpen, lostAtOpen, readResult, explicit>>
vars == <<sockVars, storeVars, pubVars, budgetVars, envVars, histVars>>

NoHandshake == [isWorker |-> FALSE, uid |-> NoUid]

\* the process got through startup and has not exited
Running == proc = "running"

\* the process has not exited
Alive == proc # "exited"

Uid(c) == handshake[c].uid

\* ------------------------------------------------------------------ registry
\* if (!userSockets.has(userId)) userSockets.set(userId, new Set());
\* userSockets.get(userId).add(socket.id);
Register(reg, userId, c) ==
  IF userId \in DOMAIN reg
    THEN [reg EXCEPT ![userId] = @ \cup {c}]
    ELSE reg @@ (userId :> {c})

\* if (userSockets.has(userId)) { delete socket.id; if empty delete entry }
Unregister(reg, userId, c) ==
  IF userId \in DOMAIN reg
    THEN IF reg[userId] \ {c} = {}
           THEN [k \in DOMAIN reg \ {userId} |-> reg[k]]
           ELSE [reg EXCEPT ![userId] = @ \ {c}]
    ELSE reg

\* userSockets.get(userId), the empty set standing for undefined
connectionsFor(userId) ==
  IF userId \in DOMAIN userSockets THEN userSockets[userId] ELSE {}

\* --------------------------------------------------------------- Redis client
GiveUp == BackoffCap + 1   \* stands for the Error reconnectStrategy returns

Min(a, b) == IF a < b THEN a ELSE b

\* reconnectStrategy: (retries) => retries > 3 ? Error : Math.min(retries * 100, 3000)
reconnectStrategy(n) ==
  IF n > MaxRetries THEN GiveUp ELSE Min(n * BackoffStep, BackoffCap)

\* a command addressed to one key shared by all users
CmdSharedKey(op, userId, room, c) == [op |-> op, key |-> "userRooms:u1", uid |-> userId, room |-> room, conn |-> c]

\* a command on the set userRooms:<userId>
Cmd(op, userId, room, c) == [op |-> op, key |-> userRoomsKey(userId), uid |-> userId, room |-> room, conn |-> c]

\* a client whose newest command overtakes the ones in flight
IssueFirst(q, cmd) == <<cmd>> \o q

\* a command handed to redisClient: queued behind the earlier ones
Issue(q, cmd) == Append(q, cmd)

CanIssue == redis # "closed" /\ Len(pending) < MaxPending

HasCmd(q, op, userId, room) ==
  \E k \in 1..Len(q) : q[k].op = op /\ q[k].uid = userId /\ q[k].room = room

\* rooms userId subscribed to whose every sAdd so far was rejected
Lost(userId) ==
  { r \in everSub[userId] \ addApplied[userId] : ~HasCmd(pending, "sAdd", userId, r) }

\* ---------------------------------------------------------------------- Init
\* the state once initializeSocketManager(io) has returned: ioInstance is set,
\* redisClient is connected, no socket has connected yet
Init ==
  /\ nconn = 0
  /\ handshake = [c \in Conns |-> NoHandshake]
  /\ live = [c \in Conns |-> FALSE]
  /\ pc = [c \in Conns |-> "unused"]
  /\ rooms = [c \in Conns |-> {}]
  /\ userSockets = <<>>
  /\ store = [k \in StoreKeys |-> {}]
  /\ redis = "ready"
  /\ retries = 0
  /\ pending = <<>>
  /\ inbox = [c \in Conns |-> <<>>]
  /\ published = <<>>
  /\ ncmd = 0
  /\ nout = 0
  /\ up = TRUE
  /\ proc = "running"
  /\ everSub = [u \in Identities |-> {}]
  /\ addApplied = [u \in Identities |-> {}]
  /\ subOK = [u \in Identities |-> {}]
  /\ unsubbed = [u \in Identities |-> {}]
  /\ unsubOK = [u \in Identities |-> {}]
  /\ unsubAtOpen = [c \in Conns |-> {}]
  /\ lostAtOpen = [c \in Conns |-> {}]
  /\ readResult = [c \in Conns |-> "none"]
  /\ explicit = [c \in Conns |-> {}]

\* --------------------------------------------------- the connection handler
\* a handler that registers the socket before it looks at socket.isWorker
WorkerTracked(c) ==
  /\ pc' = [pc EXCEPT ![c] = "worker"]
  /\ userSockets' = Register(userSockets, handshake'[c].uid, c)
  /\ UNCHANGED <<rooms, storeVars, pubVars, histVars>>

\* if (socket.isWorker) { socket.on("ai:result", ...); socket.on("disconnect", ...); return; }
WorkerConnected(c) ==
  /\ pc' = [pc EXCEPT ![c] = "worker"]
  /\ UNCHANGED <<rooms, userSockets, storeVars, pubVars, histVars>>

\* if (!userId) { console.log(...); return; }
AnonConnected(c) ==
  /\ pc' = [pc EXCEPT ![c] = "anon"]
  /\ UNCHANGED <<rooms, userSockets, storeVars, pubVars, histVars>>

\* a handler that attaches its listeners before it awaits the read
UserConnectedListening(c, userId) ==
  /\ userSockets' = Register(userSockets, userId, c)
  /\ rooms' = [rooms EXCEPT ![c] = {PersonalRoom(userId)}]
  /\ Len(pending) < MaxPending
  /\ pending' = Append(pending, [op |-> "sMembers", key |-> userRoomsKey(userId),
                                 uid |-> userId, room |-> "", conn |-> c])
  /\ pc' = [pc EXCEPT ![c] = "ready"]
  /\ UNCHANGED readResult
  /\ unsubAtOpen' = [unsubAtOpen EXCEPT ![c] = unsubbed[userId]]
  /\ lostAtOpen' = [lostAtOpen EXCEPT ![c] = Lost(userId)]
  /\ UNCHANGED <<store, redis, retries, pubVars>>
  /\ UNCHANGED <<everSub, addApplied, subOK, unsubbed, unsubOK, explicit>>

\* a registration that leaves the personal room to the rehydration read
JoinedOnRegisterNone(userId) == {}

\* the rooms a socket that just registered is joined to: socket.join(`user:${userId}`)
JoinedOnRegister(userId) == {PersonalRoom(userId)}

\* register, join the personal room, then await redisClient.sMembers(...):
\* the handler is suspended until the read is answered, and the subscribe,
\* unsubscribe and disconnect listeners are attached only after that
UserConnected(c, userId) ==
  /\ userSockets' = Register(userSockets, userId, c)
  /\ rooms' = [rooms EXCEPT ![c] = JoinedOnRegister(userId)]
  /\ IF redis = "closed"
       THEN \* the read is rejected at once (the client is closed)
            /\ pc' = [pc EXCEPT ![c] = "ready"]
            /\ readResult' = [readResult EXCEPT ![c] = "error"]
            /\ UNCHANGED pending
       ELSE /\ Len(pending) < MaxPending
            /\ pending' = Issue(pending, Cmd("sMembers", userId, "", c))
            /\ pc' = [pc EXCEPT ![c] = "rehydrating"]
            /\ UNCHANGED readResult
  /\ unsubAtOpen' = [unsubAtOpen EXCEPT ![c] = unsubbed[userId]]
  /\ lostAtOpen' = [lostAtOpen EXCEPT ![c] = Lost(userId)]
  /\ UNCHANGED <<store, redis, retries, pubVars>>
  /\ UNCHANGED <<everSub, addApplied, subOK, unsubbed, unsubOK, explicit>>

\* io.on("connection", async (socket) => { ... })
Connect(h) ==
  /\ Running /\ UNCHANGED envVars
  /\ nconn < MaxConns
  /\ UNCHANGED budgetVars
  /\ LET c == nconn + 1 IN
       /\ nconn' = c
       /\ handshake' = [handshake EXCEPT ![c] = h]
       /\ live' = [live EXCEPT ![c] = TRUE]
       /\ IF h.isWorker THEN WorkerConnected(c)
          ELSE IF h.uid = NoUid THEN AnonConnected(c)
          ELSE UserConnected(c, h.uid)

\* ------------------------------------------------------ the handshake
\* what a client presents: no token, a token verifyIdToken rejects, and valid
\* tokens whose decoded claims carry a uid or none
Credentials ==
  { [token |-> "none", uid |-> NoUid],
    [token |-> "forged", uid |-> "u2"],
    [token |-> "valid", uid |-> "u1"],
    [token |-> "valid", uid |-> NoUid] }

\* a middleware that takes the claims of any token it is given
decodeSocketAuthUnverified(cred) ==
  IF cred.token = "none" THEN "refused" ELSE "admitted"

\* decodeSocketAuth: next(new Error(...)) without a token or when
\* verifyIdToken throws; otherwise socket.user = decoded and next()
decodeSocketAuth(cred) ==
  IF cred.token = "none" THEN "refused"
  ELSE IF cred.token # "valid" THEN "refused"
  ELSE "admitted"

\* the middleware passed an Error to next: the socket is closed without ever
\* being connected and the "connection" listener is not called for it
HandshakeRefused ==
  /\ Running /\ UNCHANGED envVars
  /\ nconn < MaxConns
  /\ nconn' = nconn + 1
  /\ pc' = [pc EXCEPT ![nconn + 1] = "refused"]
  /\ UNCHANGED <<handshake, live, rooms, userSockets>>
  /\ UNCHANGED <<storeVars, pubVars, budgetVars, histVars>>

\* a rehydration that replaces the socket's rooms by the stored ones
RehydratedOnlyStored(c, members) == IF live[c] THEN members ELSE rooms[c]

\* io.use(decodeSocketAuth), then io.on("connection", ...)
Handshake(cred) ==
  IF decodeSocketAuth(cred) = "refused"
    THEN HandshakeRefused
    ELSE Connect([isWorker |-> FALSE, uid |-> cred.uid])

\* a rehydration that reads the stored rooms and joins none of them
RehydratedNothing(c, members) == rooms[c]

\* the rooms a socket ends in when the read returned `members`:
\* rooms.forEach((roomName) => socket.join(roomName)); join is a no-op on a
\* socket that has disconnected meanwhile
Rehydrated(c, members) ==
  IF live[c] THEN rooms[c] \cup members ELSE rooms[c]

\* the read of socket c was answered with `members`; the listeners are attached
RehydrateOk(c, members) ==
  /\ rooms' = [rooms EXCEPT ![c] = Rehydrated(c, members)]
  /\ pc' = [pc EXCEPT ![c] = "ready"]
  /\ readResult' = [readResult EXCEPT ![c] = IF live[c] THEN "ok" ELSE "none"]

\* catch (error) { console.error(...) }; the listeners are attached
RehydrateFailed(cs) ==
  /\ pc' = [c \in Conns |-> IF c \in cs THEN "ready" ELSE pc[c]]
  /\ readResult' = [c \in Conns |-> IF c \in cs /\ live[c] THEN "error" ELSE readResult[c]]
  /\ UNCHANGED rooms

\* ------------------------------------------------- subscribe / unsubscribe
\* a join that toggles membership: joining a room twice leaves it
JoinedToggle(c, roomName) ==
  IF roomName \in rooms[c] THEN rooms[c] \ {roomName} ELSE rooms[c] \cup {roomName}

\* a join put off until the write is acknowledged: no room is joined meanwhile
JoinedLater(c, roomName) == rooms[c]

\* socket.join(roomName)
Joined(c, roomName) == rooms[c] \cup {roomName}

\* a leave that takes the socket out of every room
LeftAll(c, roomName) == {}

\* a leave put off until the removal is acknowledged
LeftLater(c, roomName) == rooms[c]

\* socket.leave(roomName)
Left(c, roomName) == rooms[c] \ {roomName}

\* what a handler's `await redisClient.<op>(...)` leaves in flight: nothing when
\* the client is closed (the call is rejected at once and the catch logs it)
Sent(cmd) == IF redis = "closed" THEN pending ELSE Issue(pending, cmd)

\* a subscribe that joins every connected socket of the identity to the room
SubscribeForIdentity(c, p) ==
  /\ Running /\ UNCHANGED envVars
  /\ live[c] /\ pc[c] = "ready"
  /\ ncmd < MaxCmds /\ ncmd' = ncmd + 1 /\ UNCHANGED nout
  /\ redis # "closed" => Len(pending) < MaxPending
  /\ LET roomName == RoomName(p.type, p.id)
         userId == Uid(c) IN
       /\ rooms' = [k \in Conns |->
                      IF live[k] /\ pc[k] \in {"rehydrating", "ready"} /\ Uid(k) = userId
                        THEN rooms[k] \cup {roomName} ELSE rooms[k]]
       /\ pending' = Sent(Cmd("sAdd", userId, roomName, 0))
       /\ everSub' = [everSub EXCEPT ![userId] = @ \cup {roomName}]
       /\ unsubbed' = [unsubbed EXCEPT ![userId] = @ \ {roomName}]
       /\ unsubOK' = [unsubOK EXCEPT ![userId] = @ \ {roomName}]
       /\ unsubAtOpen' = [k \in Conns |->
                            IF Uid(k) = userId THEN unsubAtOpen[k] \ {roomName}
                                               ELSE unsubAtOpen[k]]
       /\ explicit' = [explicit EXCEPT ![c] = @ \cup {roomName}]
  /\ UNCHANGED <<nconn, handshake, live, pc, userSockets>>
  /\ UNCHANGED <<store, redis, retries, pubVars, addApplied, subOK, lostAtOpen, readResult>>

\* socket.on("subscribe", async ({ type, id }) => { join; await sAdd })
Subscribe(c, p) ==
  /\ Running /\ UNCHANGED envVars
  /\ live[c] /\ pc[c] = "ready"
  /\ ncmd < MaxCmds /\ ncmd' = ncmd + 1 /\ UNCHANGED nout
  /\ redis # "closed" => Len(pending) < MaxPending
  /\ LET roomName == RoomName(p.type, p.id)
         userId == Uid(c) IN
       /\ rooms' = [rooms EXCEPT ![c] = Joined(c, roomName)]
       /\ pending' = Sent(Cmd("sAdd", userId, roomName, 0))
       /\ everSub' = [everSub EXCEPT ![userId] = @ \cup {roomName}]
       /\ unsubbed' = [unsubbed EXCEPT ![userId] = @ \ {roomName}]
       /\ unsubOK' = [unsubOK EXCEPT ![userId] = @ \ {roomName}]
       /\ unsubAtOpen' = [k \in Conns |->
                            IF Uid(k) = userId THEN unsubAtOpen[k] \ {roomName}
                                               ELSE unsubAtOpen[k]]
       /\ explicit' = [explicit EXCEPT ![c] = @ \cup {roomName}]
  /\ UNCHANGED <<nconn, handshake, live, pc, userSockets>>
  /\ UNCHANGED <<store, redis, retries, pubVars, addApplied, subOK, lostAtOpen, readResult>>

\* socket.on("unsubscribe", async ({ type, id }) => { leave; await sRem })
Unsubscribe(c, p) ==
  /\ Running /\ UNCHANGED envVars
  /\ live[c] /\ pc[c] = "ready"
  /\ ncmd < MaxCmds /\ ncmd' = ncmd + 1 /\ UNCHANGED nout
  /\ redis # "closed" => Len(pending) < MaxPending
  /\ LET roomName == RoomName(p.type, p.id)
         userId == Uid(c) IN
       /\ rooms' = [rooms EXCEPT ![c] = Left(c, roomName)]
       /\ pending' = Sent(Cmd("sRem", userId, roomName, 0))
       /\ subOK' = [subOK EXCEPT ![userId] = @ \ {roomName}]
       /\ unsubbed' = [unsubbed EXCEPT ![userId] = @ \cup {roomName}]
       /\ explicit' = [explicit EXCEPT ![c] = @ \ {roomName}]
  /\ UNCHANGED <<nconn, handshake, live, pc, userSockets>>
  /\ UNCHANGED <<store, redis, retries, pubVars>>
  /\ UNCHANGED <<everSub, addApplied, unsubOK, unsubAtOpen, lostAtOpen, readResult>>

\* ------------------------------------------------ messages as they arrive
\* what a template literal renders for a field the payload does not carry
Undefined == "undefined"

\* the argument lists clients send with a subscribe / unsubscribe message: a
\* payload with both fields, payloads lacking one, and no payload at all
Messages ==
  { <<[type |-> "project", id |-> "77"]>>,
    <<[type |-> "project"]>>,
    <<[id |-> "77"]>>,
    <<>> }

\* the message carries a payload object with a type and an id
WellFormed(args) == args # <<>> /\ {"type", "id"} \subseteq DOMAIN args[1]

Field(payload, f) == IF f \in DOMAIN payload THEN payload[f] ELSE Undefined

\* the parameter pattern ({ type, id }) applied to a payload object
Destructured(args) == [type |-> Field(args[1], "type"), id |-> Field(args[1], "id")]

\* ({ type, id }) applied to undefined throws a TypeError before the try block
\* is entered: the promise of the async listener is rejected, nothing handles
\* it, and Node ends the process on the unhandled rejection
HandlerThrew(c) ==
  /\ Running
  /\ live[c] /\ pc[c] = "ready"
  /\ proc' = "exited"
  /\ UNCHANGED <<sockVars, storeVars, pubVars, budgetVars, up, histVars>>

\* the "subscribe" listener called with the arguments of the message
OnSubscribe(c, args) ==
  IF args = <<>> THEN HandlerThrew(c) ELSE Subscribe(c, Destructured(args))

\* the "unsubscribe" listener called with the arguments of the message
OnUnsubscribe(c, args) ==
  IF args = <<>> THEN HandlerThrew(c) ELSE Unsubscribe(c, Destructured(args))

\* a message arrives on socket c for which no listener is attached: the
\* event emitter of the socket finds nobody to call and the message is gone
Unheard(c) ==
  /\ Running /\ UNCHANGED envVars
  /\ live[c]
  /\ ncmd < MaxCmds /\ ncmd' = ncmd + 1 /\ UNCHANGED nout
  /\ UNCHANGED <<sockVars, storeVars, pubVars, histVars>>

\* the client of socket c sends subscribe with payload p: the listener exists
\* once the connection handler has got past its awaited read
ClientSubscribe(c, p) ==
  IF pc[c] = "ready" THEN Subscribe(c, p) ELSE Unheard(c)

\* the client of socket c sends unsubscribe with payload p
ClientUnsubscribe(c, p) ==
  IF pc[c] = "ready" THEN Unsubscribe(c, p) ELSE Unheard(c)

\* ------------------------------------------------------------- disconnect
\* a disconnect listener that also drops the user's stored rooms
UserDisconnectedForgetting(c) ==
  /\ userSockets' = Unregister(userSockets, Uid(c), c)
  /\ store' = [store EXCEPT ![userRoomsKey(Uid(c))] = {}]
  /\ UNCHANGED <<redis, retries, pending>>

\* socket.on("disconnect", ...) of a user socket: userSockets.get(userId).delete(socket.id),
\* and the entry is deleted once empty; the store is not touched
UserDisconnected(c) ==
  /\ userSockets' = Unregister(userSockets, Uid(c), c)
  /\ UNCHANGED storeVars

\* a socket that disconnects before the listener is attached (the handler is
\* still awaiting the read), a worker socket and a socket without user id:
\* no listener changes any state
NoDisconnectListener(c) ==
  /\ UNCHANGED userSockets
  /\ UNCHANGED storeVars

\* the transport closes socket c: it leaves all its rooms and is removed from
\* io.sockets.sockets, then "disconnect" is emitted to the listeners attached
Disconnect(c) ==
  /\ Running /\ UNCHANGED envVars
  /\ live[c]
  /\ UNCHANGED budgetVars
  /\ live' = [live EXCEPT ![c] = FALSE]
  /\ rooms' = [rooms EXCEPT ![c] = {}]
  /\ inbox' = [inbox EXCEPT ![c] = <<>>]
  /\ explicit' = [explicit EXCEPT ![c] = {}]
  /\ unsubAtOpen' = [unsubAtOpen EXCEPT ![c] = {}]
  /\ lostAtOpen' = [lostAtOpen EXCEPT ![c] = {}]
  /\ readResult' = [readResult EXCEPT ![c] = "none"]
  /\ IF pc[c] = "ready" THEN UserDisconnected(c) ELSE NoDisconnectListener(c)
  /\ UNCHANGED <<nconn, handshake, pc, published>>
  /\ UNCHANGED <<everSub, addApplied, subOK, unsubbed, unsubOK>>

\* ----------------------------------------------------- joinUserSocketsToRoom
\* every registered socket of userId that is still connected joins roomName,
\* then sAdd; nothing at all happens when userId has no registry entry
joinUserSocketsToRoom(userId, roomName) ==
  /\ Running /\ UNCHANGED envVars
  /\ ncmd < MaxCmds /\ ncmd' = ncmd + 1 /\ UNCHANGED nout
  /\ IF userId \in DOMAIN userSockets
       THEN /\ redis # "closed" => Len(pending) < MaxPending
            /\ rooms' = [c \in Conns |->
                           IF c \in userSockets[userId] /\ live[c]
                             THEN Joined(c, roomName) ELSE rooms[c]]
            /\ pending' = Sent(Cmd("sAdd", userId, roomName, 0))
            /\ everSub' = [everSub EXCEPT ![userId] = @ \cup {roomName}]
            /\ unsubbed' = [unsubbed EXCEPT ![userId] = @ \ {roomName}]
            /\ unsubOK' = [unsubOK EXCEPT ![userId] = @ \ {roomName}]
            /\ unsubAtOpen' = [k \in Conns |->
                                 IF Uid(k) = userId THEN unsubAtOpen[k] \ {roomName}
                                                    ELSE unsubAtOpen[k]]
       ELSE UNCHANGED <<rooms, pending, everSub, unsubbed, unsubOK, unsubAtOpen>>
  /\ UNCHANGED <<nconn, handshake, live, pc, userSockets>>
  /\ UNCHANGED <<store, redis, retries, pubVars, addApplied, subOK, explicit, lostAtOpen, readResult>>

\* ------------------------------------------------------------ the broadcaster
\* an emit that also reaches the connected sockets of every identity that ever
\* subscribed to the room
RecipientsEverSubscribed(roomName) ==
  { c \in Conns : live[c] /\ (roomName \in rooms[c] \/ roomName \in everSub[Uid(c)]) }

\* an emit that is not scoped to the room: io.emit reaches every connected socket
RecipientsAll(roomName) == { c \in Conns : live[c] }

\* the sockets io.to(roomName) addresses: the connected sockets joined to it
Recipients(roomName) == { c \in Conns : live[c] /\ roomName \in rooms[c] }

\* a transport that hands the client the newest packet first
DeliveredFirst(c, packet) == <<packet>> \o inbox[c]

\* what the client of socket c holds once the packet is written to its
\* connection: packets of one connection arrive in the order they were written
Delivered(c, packet) == Append(inbox[c], packet)

\* io.to(roomName).emit(event, data): one packet to each addressed socket
Emit(roomName, event, data) ==
  /\ Running
  /\ Len(published) < MaxEvents
  /\ published' = Append(published, [room |-> roomName, event |-> event, data |-> data])
  /\ inbox' = [c \in Conns |->
                 IF c \in Recipients(roomName)
                   THEN Delivered(c, [event |-> event, data |-> data, n |-> Len(published) + 1])
                   ELSE inbox[c]]
  /\ UNCHANGED <<sockVars, storeVars, budgetVars, envVars, histVars>>

\* emitToRoom(roomName, event, data); ioInstance is set since initialization
emitToRoom(roomName, event, data) == Emit(roomName, event, data)

\* POST / of the comments router: req.io.to(`task:${taskId}`).emit("comment:created", ...)
CommentCreated(taskId) ==
  Emit(RoomName("task", taskId), "comment:created", [comment |-> "cm1"])

\* POST /:id/members: req.io.to(`user:${user.uid}`).emit("workspace:invited", ...)
MemberInvited(userId) ==
  Emit(PersonalRoom(userId), "workspace:invited", [workspace |-> "w1", role |-> "member"])

\* a listener that forwards the task id in place of the result type
AiCompletedMislabelled(m) == [type |-> m.taskId, taskId |-> m.taskId, data |-> m.data]

\* the payload the ai:result listener builds from the worker's message
AiCompleted(m) == [type |-> m.type, taskId |-> m.taskId, data |-> m.data]

\* a connection handler that attaches the ai:result listener to user sockets too
HasAiListenerOrUser(c) == pc[c] \in {"worker", "ready"}

\* socket c has an "ai:result" listener: only the worker branch attaches one
HasAiListener(c) == pc[c] = "worker"

\* socket.on("ai:result", (data) => io.to(`project:${data.projectId}`).emit("ai:completed", ...))
AiResult(w, m) ==
  /\ live[w] /\ HasAiListener(w)
  /\ Emit(RoomName("project", m.projectId), "ai:completed", AiCompleted(m))

\* the peer of socket c sends ai:result with message m
AiResultOn(c, m) ==
  IF HasAiListener(c) THEN AiResult(c, m) ELSE Unheard(c)

\* ------------------------------------------------------------- Redis replies
\* the set at the key after redisClient.sAdd(key, roomName)
StoreAfterAdd(members, roomName) == members \cup {roomName}

\* an unsubscribe whose removal leaves the stored set as it was
StoreAfterRemKept(members, roomName) == members

\* the set at the key after redisClient.sRem(key, roomName)
StoreAfterRem(members, roomName) == members \ {roomName}

\* SADD key room, applied
SAddApplied(cmd, rest) ==
  /\ store' = [store EXCEPT ![cmd.key] = StoreAfterAdd(@, cmd.room)]
  /\ addApplied' = [addApplied EXCEPT ![cmd.uid] = @ \cup {cmd.room}]
  /\ subOK' = [subOK EXCEPT ![cmd.uid] =
                 IF HasCmd(rest, "sRem", cmd.uid, cmd.room) THEN @ ELSE @ \cup {cmd.room}]
  /\ UNCHANGED <<rooms, pc, readResult, unsubOK>>

\* SREM key room, applied
SRemApplied(cmd, rest) ==
  /\ store' = [store EXCEPT ![cmd.key] = StoreAfterRem(@, cmd.room)]
  /\ unsubOK' = [unsubOK EXCEPT ![cmd.uid] =
                   IF cmd.room \in unsubbed[cmd.uid] /\ ~HasCmd(rest, "sAdd", cmd.uid, cmd.room)
                     THEN @ \cup {cmd.room} ELSE @]
  /\ UNCHANGED <<rooms, pc, readResult, addApplied, subOK>>

\* the oldest command in flight is answered by the server
StoreReplyOk ==
  /\ Running /\ UNCHANGED envVars
  /\ redis = "ready" /\ pending # <<>>
  /\ LET cmd == Head(pending)
         rest == Tail(pending) IN
       /\ pending' = rest
       /\ CASE cmd.op = "sMembers" ->
                 /\ RehydrateOk(cmd.conn, store[cmd.key])
                 /\ UNCHANGED <<store, addApplied, subOK, unsubOK>>
            [] cmd.op = "sAdd" -> SAddApplied(cmd, rest)
            [] cmd.op = "sRem" -> SRemApplied(cmd, rest)
  /\ UNCHANGED <<nconn, handshake, live, userSockets, redis, retries, pubVars>>
  /\ UNCHANGED <<budgetVars, everSub, unsubbed, unsubAtOpen, lostAtOpen, explicit>>

\* catch blocks that reset the stored rooms when a command fails
RejectedClearing(cmds) ==
  /\ RehydrateFailed({ cmds[k].conn : k \in { j \in 1..Len(cmds) : cmds[j].op = "sMembers" } })
  /\ store' = [k \in StoreKeys |-> {}]
  /\ UNCHANGED <<addApplied, subOK, unsubOK>>

\* the continuations of rejected commands: the catch blocks only log
Rejected(cmds) ==
  /\ RehydrateFailed({ cmds[k].conn : k \in { j \in 1..Len(cmds) : cmds[j].op = "sMembers" } })
  /\ UNCHANGED <<store, addApplied, subOK, unsubOK>>

\* the oldest command in flight is rejected: the connection to Redis is down
StoreReplyErr ==
  /\ Running /\ UNCHANGED envVars
  /\ redis = "reconnecting" /\ pending # <<>>
  /\ pending' = Tail(pending)
  /\ Rejected(<<Head(pending)>>)
  /\ UNCHANGED <<nconn, handshake, live, userSockets, redis, retries, pubVars>>
  /\ UNCHANGED <<budgetVars, everSub, unsubbed, unsubAtOpen, lostAtOpen, explicit>>

\* ------------------------------------------------- Redis connection lifecycle
\* the Redis server stops answering and the connection drops; the client
\* starts reconnecting
RedisDropped ==
  /\ Running /\ UNCHANGED proc
  /\ redis = "ready"
  /\ up' = FALSE
  /\ nout < MaxOutages /\ nout' = nout + 1 /\ UNCHANGED ncmd
  /\ redis' = "reconnecting"
  /\ retries' = 0
  /\ UNCHANGED <<sockVars, store, pending, pubVars, histVars>>

\* a reconnection attempt, scheduled by reconnectStrategy(retries), fails
RedisRetryFailed ==
  /\ Alive /\ UNCHANGED envVars
  /\ redis = "reconnecting"
  /\ reconnectStrategy(retries) # GiveUp
  /\ retries' = retries + 1
  /\ UNCHANGED <<sockVars, store, redis, pending, pubVars, budgetVars, histVars>>

\* the Redis server answers again and a connection attempt succeeds
RedisReconnected ==
  /\ Alive /\ UNCHANGED proc
  /\ redis = "reconnecting"
  /\ up' = TRUE
  /\ reconnectStrategy(retries) # GiveUp
  /\ redis' = "ready"
  /\ retries' = 0
  /\ UNCHANGED <<sockVars, store, pending, pubVars, budgetVars, histVars>>

\* reconnectStrategy returns an Error: the client closes for good and every
\* command still in flight is rejected
RedisGaveUp ==
  /\ Alive /\ UNCHANGED envVars
  /\ redis = "reconnecting"
  /\ reconnectStrategy(retries) = GiveUp
  /\ redis' = "closed"
  /\ pending' = <<>>
  /\ Rejected(pending)
  /\ UNCHANGED <<nconn, handshake, live, userSockets, retries, pubVars>>
  /\ UNCHANGED <<budgetVars, everSub, unsubbed, unsubAtOpen, lostAtOpen, explicit>>

\* the Redis server answers again after the client has closed: nothing in the
\* process opens the client again
RedisRestored ==
  /\ Running /\ UNCHANGED proc
  /\ redis = "closed" /\ ~up
  /\ up' = TRUE
  /\ UNCHANGED <<sockVars, storeVars, pubVars, budgetVars, histVars>>

\* ------------------------------------------------------------------ startup
\* the state when the startup function of server.js calls
\* initializeSocketManager(io): redisClient.connect() is making its first
\* connection attempt and no "connection" listener is registered yet
InitBoot ==
  /\ nconn = 0
  /\ handshake = [c \in Conns |-> NoHandshake]
  /\ live = [c \in Conns |-> FALSE]
  /\ pc = [c \in Conns |-> "unused"]
  /\ rooms = [c \in Conns |-> {}]
  /\ userSockets = <<>>
  /\ store = [k \in StoreKeys |-> {}]
  /\ redis = "reconnecting"
  /\ retries = 0
  /\ pending = <<>>
  /\ inbox = [c \in Conns |-> <<>>]
  /\ published = <<>>
  /\ ncmd = 0
  /\ nout = 0
  /\ up = FALSE
  /\ proc = "starting"
  /\ everSub = [u \in Identities |-> {}]
  /\ addApplied = [u \in Identities |-> {}]
  /\ subOK = [u \in Identities |-> {}]
  /\ unsubbed = [u \in Identities |-> {}]
  /\ unsubOK = [u \in Identities |-> {}]
  /\ unsubAtOpen = [c \in Conns |-> {}]
  /\ lostAtOpen = [c \in Conns |-> {}]
  /\ readResult = [c \in Conns |-> "none"]
  /\ explicit = [c \in Conns |-> {}]

\* await redisClient.connect() resolved: the "connection" listener is
\* registered, the routes are mounted and the server listens
StartupDone ==
  /\ proc = "starting" /\ redis = "ready"
  /\ proc' = "running"
  /\ UNCHANGED <<sockVars, storeVars, pubVars, budgetVars, up, histVars>>

\* await redisClient.connect() rejected: initializeSocketManager rethrows and
\* the catch of the startup function calls process.exit(1)
StartupFailed ==
  /\ proc = "starting" /\ redis = "closed"
  /\ proc' = "exited"
  /\ UNCHANGED <<sockVars, storeVars, pubVars, budgetVars, up, histVars>>

\* ---------------------------------------------------------------- behaviours
UserHandshakes == { h \in Handshakes : ~h.isWorker /\ h.uid # NoUid }

\* the subscription engine: user sockets, their commands, the store and its outages
Next ==
  \/ \E h \in UserHandshakes : Connect(h)
  \/ \E c \in Conns : Disconnect(c)
  \/ \E c \in Conns, p \in Payloads : Subscribe(c, p)
  \/ \E c \in Conns, p \in Payloads : Unsubscribe(c, p)
  \/ \E u \in Identities, r \in JoinRooms : joinUserSocketsToRoom(u, r)
  \/ StoreReplyOk
  \/ StoreReplyErr
  \/ RedisDropped
  \/ RedisReconnected

Spec == Init /\ [][Next]_vars

PublishHandshakes == { h \in Handshakes : h.isWorker \/ h.uid # NoUid }

\* no event was published yet
OneShot == Len(published) < MaxPublished

\* the delivery fabric: sockets of every kind, their commands, the publishers
NextPublish ==
  \/ \E h \in PublishHandshakes : Connect(h)
  \/ \E c \in Conns : Disconnect(c)
  \/ \E c \in Conns, p \in Payloads : Subscribe(c, p)
  \/ \E c \in Conns, p \in Payloads : Unsubscribe(c, p)
  \/ \E r \in Rooms : OneShot /\ emitToRoom(r, "task:created", [id |-> "5"])
  \/ \E t \in TaskIds : OneShot /\ CommentCreated(t)
  \/ \E u \in Identities : OneShot /\ MemberInvited(u)
  \/ \E w \in Conns, m \in AiResults : OneShot /\ AiResult(w, m)
  \/ StoreReplyOk

SpecPublish == Init /\ [][NextPublish]_vars

\* the process from startup on: the Redis client with its reconnection
\* strategy, and two sockets sending messages of every shape
NextLifecycle ==
  \/ StartupDone
  \/ StartupFailed
  \/ \E h \in UserHandshakes : nconn < MaxLifecycleConns /\ Connect(h)
  \/ \E c \in Conns : Disconnect(c)
  \/ \E c \in Conns, args \in Messages : OnSubscribe(c, args)
  \/ \E c \in Conns, args \in Messages : OnUnsubscribe(c, args)
  \/ \E u \in Identities : OneShot /\ MemberInvited(u)
  \/ StoreReplyOk
  \/ StoreReplyErr
  \/ RedisDropped
  \/ RedisRetryFailed
  \/ RedisReconnected
  \/ RedisGaveUp
  \/ RedisRestored

SpecLifecycle == InitBoot /\ [][NextLifecycle]_vars

\* a sequence of events: two sockets, their subscriptions, and the publishers
\* emitting one after the other
NextOrder ==
  \/ \E h \in PublishHandshakes : nconn < MaxOrderConns /\ Connect(h)
  \/ \E c \in Conns : Disconnect(c)
  \/ \E c \in Conns, p \in Payloads : Subscribe(c, p)
  \/ \E p \in ProjectIds : emitToRoom(RoomName("project", p), "task:created", [id |-> "5"])
  \/ \E u \in Identities : MemberInvited(u)
  \/ \E c \in Conns, m \in AiResults : AiResultOn(c, m)
  \/ StoreReplyOk

SpecOrder == Init /\ [][NextOrder]_vars

\* the message traffic: handshakes with every kind of credentials, and clients
\* that send their commands whenever they like
NextMessages ==
  \/ \E cred \in Credentials : nconn < MaxMessageConns /\ Handshake(cred)
  \/ \E c \in Conns : Disconnect(c)
  \/ \E c \in Conns, p \in Payloads : ClientSubscribe(c, p)
  \/ \E c \in Conns, p \in Payloads : ClientUnsubscribe(c, p)
  \/ StoreReplyOk
  \/ StoreReplyErr
  \/ RedisDropped
  \/ RedisReconnected

SpecMessages == Init /\ [][NextMessages]_vars

\* the room names the messages lead to
MessageRooms ==
  { RoomName(Destructured(args).type, Destructured(args).id) : args \in Messages \ {<<>>} }

TypeOK ==
  /\ nconn \in 0..MaxConns
  /\ \A c \in Conns : rooms[c] \subseteq Rooms \cup MessageRooms
  /\ \A k \in StoreKeys : store[k] \subseteq Rooms \cup MessageRooms
  /\ proc \in {"starting", "running", "exited"}
  /\ redis \in {"ready", "reconnecting", "closed"}
  /\ Len(pending) <= MaxPending
  /\ retries \in 0..(MaxRetries + 1)

\* ------------------------------------------------------------ vocabulary
\* socket c went through registration (it is, or was, a user socket)
Registered(c) == pc[c] \in {"rehydrating", "ready"}

\* the durable room set of userId
DurableRooms(userId) == store[userRoomsKey(userId)]

\* the live connections of userId
LiveConnsOf(userId) == { c \in Conns : live[c] /\ Registered(c) /\ Uid(c) = userId }

\* this step answers the rehydration read of socket c
ReadAnswered(c) == pc[c] = "rehydrating" /\ pc'[c] = "ready"

\* this step answers the rehydration read of socket c with the stored rooms
ReadOk(c) == ReadAnswered(c) /\ redis = "ready"

\* the rooms this step joins socket c to
NewlyJoined(c) == rooms'[c] \ rooms[c]

\* this step closes socket c
Closes(c) == live[c] /\ ~live'[c]

\* this step publishes an event
Publishes == Len(published') = Len(published) + 1

\* what the client of c holds after the event published last reached it
Received(c) ==
  LET e == published'[Len(published')] IN
    Append(inbox[c], [event |-> e.event, data |-> e.data, n |-> Len(published')])

\* ------------------------------------------------------------------ claims
ProjectRoom == RoomName("project", "77")

\* C1: once a subscribe of identity i for room r was processed and its sAdd
\* applied, with no unsubscribe of r by i since, every connection of i whose
\* rehydration read is answered from the store ends joined to r; and a
\* registered connection is joined to nothing but its personal room and the
\* rooms its identity subscribed to.
C1_RehydrationRoundTrip ==
  /\ [][\A c \in Conns :
          (ReadOk(c) /\ live[c]) => subOK[Uid(c)] \subseteq rooms'[c]]_vars
  /\ [](\A c \in Conns :
          Registered(c) => rooms[c] \subseteq {PersonalRoom(Uid(c))} \cup everSub[Uid(c)])

\* a connection subscribed to project:77 and disconnected; two connections of
\* the same identity opened since are both joined to it without subscribing,
\* while the other identity never subscribed
C1_Witness ==
  \E c1, c2, c3 \in Conns :
    /\ c1 < c2 /\ c2 < c3
    /\ Uid(c1) = Uid(c2) /\ Uid(c2) = Uid(c3)
    /\ ~live[c1] /\ pc[c1] = "ready"
    /\ \A c \in {c2, c3} :
         /\ live[c] /\ readResult[c] = "ok"
         /\ ProjectRoom \in rooms[c] /\ ProjectRoom \notin explicit[c]
    /\ ProjectRoom \in subOK[Uid(c1)]
    /\ \E u \in Identities : ProjectRoom \notin everSub[u]

\* C2 (as stated): a connection of i opened after an unsubscribe of r by i was
\* processed, with no subscribe of r for i since, is not joined to r by
\* rehydration.
C2_NoRejoinAfterUnsubscribe ==
  [][\A c \in Conns : ReadOk(c) => NewlyJoined(c) \cap unsubAtOpen[c] = {}]_vars

\* C2 (amended): once the sRem of an unsubscribe of r by i was applied, with no
\* subscribe of r for i since, no connection of i is joined to r by rehydration.
C2_NoRejoinAfterAppliedUnsubscribe ==
  [][\A c \in Conns : ReadOk(c) => NewlyJoined(c) \cap unsubOK[Uid(c)] = {}]_vars

\* project:77 was durably subscribed, then unsubscribed with the removal
\* applied; a connection opened after that was rehydrated without it
C2_Witness ==
  \E c \in Conns :
    /\ live[c] /\ readResult[c] = "ok"
    /\ ProjectRoom \in unsubAtOpen[c] \cap unsubOK[Uid(c)]
    /\ ProjectRoom \in addApplied[Uid(c)]
    /\ ProjectRoom \notin rooms[c]

\* C3: a step that closes a socket leaves the store, the commands in flight
\* on it and the durable subscriptions as they were.
C3_DisconnectKeepsStore ==
  [][(\E c \in Conns : Closes(c)) =>
       (store' = store /\ pending' = pending /\ subOK' = subOK)]_vars

\* a user socket whose disconnect was handled while its identity holds a
\* durable subscription
C3_Witness ==
  \E c \in Conns :
    /\ ~live[c] /\ pc[c] = "ready"
    /\ c \notin connectionsFor(Uid(c))
    /\ subOK[Uid(c)] # {}
    /\ subOK[Uid(c)] \subseteq DurableRooms(Uid(c))

\* C4: an event published to room r is appended exactly once to the inbox of
\* every connected socket joined to r, whatever its identity, and the inbox of
\* every other socket is left as it was.
C4_ExactFanOut ==
  [][Publishes =>
       \A c \in Conns :
         inbox'[c] = IF live[c] /\ published'[Len(published')].room \in rooms[c]
                       THEN Received(c) ELSE inbox[c]]_vars

\* an event published to project:77 reached sockets of two identities joined to
\* it, once each, and did not reach a connected socket outside the room
C4_Witness ==
  /\ published # <<>>
  /\ published[1].room = ProjectRoom
  /\ \E c1, c2, c3 \in Conns :
       /\ live[c1] /\ live[c2] /\ live[c3]
       /\ Uid(c1) # Uid(c2)
       /\ Len(inbox[c1]) = 1 /\ Len(inbox[c2]) = 1
       /\ ProjectRoom \notin rooms[c3] /\ inbox[c3] = <<>>

\* C5: a user socket is joined to its personal room from registration on:
\* while its read is pending it is addressed by events for user:<uid>, the
\* answer to the read (stored rooms or error) leaves it joined, and nothing
\* but its own unsubscribe or its disconnect takes it out of that room.
C5_PersonalRoomOnRegister ==
  /\ [](\A c \in Conns :
          (live[c] /\ pc[c] = "rehydrating") => c \in Recipients(PersonalRoom(Uid(c))))
  /\ [][\A c \in Conns :
          (ReadAnswered(c) /\ live[c]) => PersonalRoom(Uid(c)) \in rooms'[c]]_vars
  /\ [][\A c \in Conns :
          (Registered(c) /\ PersonalRoom(Uid(c)) \in rooms[c] /\ PersonalRoom(Uid(c)) \notin rooms'[c])
            => (Closes(c) \/ \E p \in Payloads : Unsubscribe(c, p))]_vars

\* two connected sockets of one identity, neither of which subscribed to
\* anything: one still waits for its read, the read of the other failed, and
\* both are addressed by events for the personal room
C5_Witness ==
  \E c1, c2 \in Conns :
    /\ c1 # c2 /\ Uid(c1) = Uid(c2)
    /\ live[c1] /\ pc[c1] = "rehydrating"
    /\ live[c2] /\ readResult[c2] = "error"
    /\ explicit[c1] = {} /\ explicit[c2] = {} /\ ncmd = 0
    /\ {c1, c2} \subseteq Recipients(PersonalRoom(Uid(c1)))

\* this step is the connect, a job result or the disconnect of worker socket w
WorkerEvent(w) ==
  /\ handshake'[w].isWorker
  /\ \/ nconn' = w /\ nconn = w - 1
     \/ Closes(w)
     \/ \E m \in AiResults : AiResult(w, m)

\* C6: no worker socket is in the registry under any identity, and the
\* connect, job-result and disconnect steps of a worker socket leave the
\* registry, every socket's rooms, the store and the commands in flight alone.
C6_WorkerOutsideRegistry ==
  /\ [](\A w \in Conns : handshake[w].isWorker =>
          \A u \in DOMAIN userSockets : w \notin userSockets[u])
  /\ [][(\E w \in Conns : WorkerEvent(w)) =>
          UNCHANGED <<userSockets, rooms, store, pending>>]_vars

\* a worker socket connected, delivered a result and disconnected while user
\* sockets were registered
C6_Witness ==
  \E w \in Conns :
    /\ handshake[w].isWorker /\ pc[w] = "worker" /\ ~live[w]
    /\ published # <<>> /\ published[1].event = "ai:completed"
    /\ userSockets # <<>>
    /\ \E c \in Conns : live[c] /\ ProjectRoom \in rooms[c]

\* C7: an ai:result message with project id p publishes one ai:completed event
\* carrying the message's type, taskId and data; it reaches every connected
\* socket joined to project:p and no other, and the worker is in no room.
C7_JobResultFanOut ==
  [][\A w \in Conns, m \in AiResults :
       AiResult(w, m) =>
         /\ Publishes
         /\ rooms[w] = {}
         /\ \A c \in Conns :
              inbox'[c] =
                IF live[c] /\ RoomName("project", m.projectId) \in rooms[c]
                  THEN Append(inbox[c], [event |-> "ai:completed",
                                         data |-> [type |-> m.type, taskId |-> m.taskId, data |-> m.data],
                                         n |-> Len(published) + 1])
                  ELSE inbox[c]]_vars

\* a job result reached a socket joined to project:77 and not a connected
\* socket outside it, sent by a worker that is in no room
C7_Witness ==
  \E w, c1, c2 \in Conns :
    /\ live[w] /\ pc[w] = "worker" /\ rooms[w] = {}
    /\ live[c1] /\ ProjectRoom \in rooms[c1]
    /\ Len(inbox[c1]) = 1 /\ inbox[c1][1].event = "ai:completed"
    /\ inbox[c1][1].data.type = "priority"
    /\ live[c2] /\ Registered(c2) /\ inbox[c2] = <<>>

\* this step rejects the sAdd at the head of the commands in flight
AddRejected ==
  /\ pending # <<>> /\ Head(pending).op = "sAdd"
  /\ pending' = Tail(pending)
  /\ redis # "ready"

\* C8: a subscribe joins its socket to the room whatever the state of the
\* store, and the socket is then addressed by events for the room; the
\* rejection of its sAdd leaves the store, the rooms, the registry and the
\* connections as they were; and a room of which every sAdd of the identity
\* was rejected is not joined by a rehydration read.
C8_DegradedSubscribe ==
  /\ [][\A c \in Conns, p \in Payloads :
          Subscribe(c, p) =>
            /\ RoomName(p.type, p.id) \in rooms'[c]
            /\ live'[c] /\ c \in connectionsFor(Uid(c))']_vars
  /\ [][AddRejected =>
          (store' = store /\ rooms' = rooms /\ live' = live /\ userSockets' = userSockets)]_vars
  /\ [][\A c \in Conns : ReadOk(c) => NewlyJoined(c) \cap Lost(Uid(c)) = {}]_vars

\* the sAdd of a subscribe to project:77 was rejected; the subscriber is still
\* connected and joined, the store is back, and a connection of the identity
\* opened after the rejection was rehydrated without project:77
C8_Witness ==
  \E c, c2 \in Conns :
    /\ c # c2 /\ Uid(c) = Uid(c2)
    /\ live[c] /\ ProjectRoom \in explicit[c] /\ c \in Recipients(ProjectRoom)
    /\ ProjectRoom \in Lost(Uid(c))
    /\ redis = "ready" /\ DurableRooms(Uid(c)) = {}
    /\ live[c2] /\ readResult[c2] = "ok"
    /\ ProjectRoom \in lostAtOpen[c2] /\ ProjectRoom \notin rooms[c2]

\* C9 (as stated): the durable room set of an identity contains every room
\* that a live connection of it joined through subscribe and has not itself
\* unsubscribed.
C9_DurableSuperset ==
  \A c \in Conns :
    (live[c] /\ Registered(c)) => explicit[c] \subseteq DurableRooms(Uid(c))

\* C9 (amended): the durable room set of an identity contains every such room
\* of which an sAdd of the identity was applied, no connection of the identity
\* having unsubscribed it since.
C9_DurableSupersetOfApplied ==
  \A c \in Conns :
    (live[c] /\ Registered(c)) =>
      (explicit[c] \cap subOK[Uid(c)]) \subseteq DurableRooms(Uid(c))

\* a live connection subscribed to project:77, the sAdd was applied, and the
\* room is in the durable set while another identity holds its own
C9_Witness ==
  \E c \in Conns :
    /\ live[c] /\ ProjectRoom \in explicit[c] \cap subOK[Uid(c)]
    /\ ProjectRoom \in DurableRooms(Uid(c))
    /\ \E u \in Identities : u # Uid(c) /\ subOK[u] # {}

\* C10: the registry entry of every identity is the set of its live
\* connections (no entry when it has none).
C10_RegistryIsLiveConnections ==
  \A u \in Identities : connectionsFor(u) = LiveConnsOf(u)

\* the room a message with payload names
MessageRoom(args) == RoomName(Destructured(args).type, Destructured(args).id)

\* C11: a subscribe or unsubscribe message without payload object, or whose
\* payload lacks type or id, is ignored: no socket's rooms change, nothing is
\* written to the store, and the socket stays registered in a running process.
C11_MalformedIgnored ==
  [][\A c \in Conns, args \in Messages :
       (~WellFormed(args) /\ (OnSubscribe(c, args) \/ OnUnsubscribe(c, args))) =>
         /\ rooms' = rooms
         /\ store' = store /\ pending' = pending
         /\ proc' = "running"
         /\ live'[c] /\ c \in userSockets'[Uid(c)]]_vars

\* C12: the server process never reaches the terminated state, whatever the
\* store does at startup or later and whatever messages arrive.
C12_NeverTerminates == proc # "exited"

\* C19: with the client closed after the attempt ceiling, connect, subscribe,
\* unsubscribe and publish keep their transport-level effect; and once the
\* Redis server answers again, a subscribe or unsubscribe hands its write to
\* the store and a new connection reads its rooms from it.
C19_MemoryOnlyUntilConnectivityReturns ==
  /\ [][\A c \in Conns, args \in Messages :
          (redis = "closed" /\ WellFormed(args)) =>
            /\ OnSubscribe(c, args) => MessageRoom(args) \in rooms'[c]
            /\ OnUnsubscribe(c, args) => MessageRoom(args) \notin rooms'[c]]_vars
  /\ [][\A c \in Conns, args \in Messages :
          (up /\ WellFormed(args)) =>
            /\ OnSubscribe(c, args) => HasCmd(pending', "sAdd", Uid(c), MessageRoom(args))
            /\ OnUnsubscribe(c, args) => HasCmd(pending', "sRem", Uid(c), MessageRoom(args))]_vars
  /\ [][\A c \in Conns :
          (up /\ nconn' = c /\ nconn = c - 1) => HasCmd(pending', "sMembers", Uid(c)', "")]_vars

\* the store once every command in flight has been applied, in order
RECURSIVE Settled(_, _)
Settled(st, q) ==
  IF q = <<>> THEN st
  ELSE LET cmd == Head(q) IN
         Settled(CASE cmd.op = "sAdd" -> [st EXCEPT ![cmd.key] = StoreAfterAdd(@, cmd.room)]
                   [] cmd.op = "sRem" -> [st EXCEPT ![cmd.key] = StoreAfterRem(@, cmd.room)]
                   [] OTHER -> st,
                 Tail(q))

\* C13 (as stated): an unsubscribe for r on a connection not joined to r leaves
\* the rooms of every socket and the durable room set of every identity, once
\* the commands in flight are applied, as they were.
C13_UnjoinedUnsubscribeNoOp ==
  [][\A c \in Conns, p \in Payloads :
       (Unsubscribe(c, p) /\ RoomName(p.type, p.id) \notin rooms[c]) =>
         /\ rooms' = rooms
         /\ Settled(store', pending') = Settled(store, pending)]_vars

\* C13 (amended): such an unsubscribe leaves the rooms of every socket and the
\* durable room set of every other identity as they were, and removes r from
\* the durable room set of the sender's identity once its sRem is applied.
C13_UnjoinedUnsubscribeRemovesDurable ==
  [][\A c \in Conns, p \in Payloads :
       (Unsubscribe(c, p) /\ RoomName(p.type, p.id) \notin rooms[c]) =>
         /\ rooms' = rooms /\ store' = store
         /\ \A u \in Identities :
              Settled(store', pending')[userRoomsKey(u)] =
                IF u = Uid(c)
                  THEN Settled(store, pending)[userRoomsKey(u)] \ {RoomName(p.type, p.id)}
                  ELSE Settled(store, pending)[userRoomsKey(u)]]_vars

\* of two connected sockets of one identity the later one subscribed to
\* project:77 and is still joined; the earlier one, never joined to it,
\* unsubscribed it, and the room is gone from the identity's durable set
C13_Witness ==
  /\ nconn = 2 /\ live[1] /\ live[2] /\ Uid(1) = Uid(2)
  /\ ProjectRoom \in explicit[2] /\ ProjectRoom \in rooms[2]
  /\ ProjectRoom \notin rooms[1] /\ readResult[1] = "ok"
  /\ ProjectRoom \in unsubbed[Uid(1)] /\ ProjectRoom \in addApplied[Uid(1)]
  /\ pending = <<>> /\ ProjectRoom \notin DurableRooms(Uid(1))

ServerJoined(c) == rooms[c] \cap JoinRooms

\* C15: registering a socket sends the read and no write; the answer to the
\* read sends nothing and leaves the store as it was, and the socket ends in
\* its personal room plus the rooms read (plus a room joinUserSocketsToRoom put
\* it in meanwhile); a rejected read leaves the socket's rooms as they were.
C15_RehydrationOnlyReads ==
  /\ [][\A c \in Conns :
          (nconn' = c /\ nconn = c - 1) =>
            /\ rooms'[c] = {PersonalRoom(Uid(c)')}
            /\ store' = store
            /\ \/ pending' = Append(pending, Cmd("sMembers", Uid(c)', "", c))
               \/ redis = "closed" /\ pending' = pending]_vars
  /\ [][\A c \in Conns :
          (ReadOk(c) /\ live[c]) =>
            /\ store' = store /\ pending' = Tail(pending)
            /\ rooms'[c] = {PersonalRoom(Uid(c))} \cup DurableRooms(Uid(c)) \cup ServerJoined(c)
            /\ \A d \in Conns \ {c} : rooms'[d] = rooms[d]]_vars
  /\ [][\A c \in Conns :
          (ReadAnswered(c) /\ ~ReadOk(c)) =>
            (rooms' = rooms /\ store' = store /\ pending' = Tail(pending))]_vars

\* a socket that never subscribed was rehydrated: it is in its personal room
\* and in project:77, which is all the identity's durable set holds, and the
\* one subscription command of the behaviour left nothing in flight
C15_Witness ==
  \E c \in Conns :
    /\ live[c] /\ readResult[c] = "ok" /\ explicit[c] = {}
    /\ rooms[c] = {PersonalRoom(Uid(c)), ProjectRoom}
    /\ DurableRooms(Uid(c)) = {ProjectRoom}
    /\ ncmd = 1 /\ pending = <<>>

\* C16: an event published to a room no connected socket is joined to reaches
\* nobody, and no step other than a publish puts an event in an inbox: a
\* socket that joins the room later, by subscribe or by rehydration, does not
\* receive it.
C16_FireAndForget ==
  /\ [][(/\ Publishes
          /\ \A c \in Conns : ~(live[c] /\ published'[Len(published')].room \in rooms[c]))
            => inbox' = inbox]_vars
  /\ [][~Publishes =>
          \A c \in Conns : inbox'[c] = IF Closes(c) THEN <<>> ELSE inbox[c]]_vars

\* an event was published to project:77 and nobody holds it; a socket that
\* subscribed to the room and a socket rehydrated into it are joined now
C16_Witness ==
  /\ published # <<>> /\ published[1].room = ProjectRoom
  /\ \A c \in Conns : inbox[c] = <<>>
  /\ \E c1, c2 \in Conns :
       /\ live[c1] /\ ProjectRoom \in explicit[c1] /\ ProjectRoom \in rooms[c1]
       /\ live[c2] /\ readResult[c2] = "ok"
       /\ ProjectRoom \in rooms[c2] /\ ProjectRoom \notin explicit[c2]

C18_StoreCallsDoNotBlock ==
  /\ [](\A d \in Conns :
          (/\ pending # <<>>
           /\ live[d] /\ pc[d] = "ready"
           /\ ncmd < MaxCmds /\ Len(pending) < MaxPending) =>
            /\ \A p \in Payloads : ENABLED Subscribe(d, p) /\ ENABLED Unsubscribe(d, p)
            /\ ENABLED Disconnect(d)
            /\ ENABLED MemberInvited(Uid(d))
            /\ nconn < MaxConns => \A h \in UserHandshakes : ENABLED Connect(h))
  /\ [][\A c \in Conns, p \in Payloads :
          Subscribe(c, p) =>
            /\ RoomName(p.type, p.id) \in rooms'[c]
            /\ store' = store
            /\ pending' = Append(pending, Cmd("sAdd", Uid(c), RoomName(p.type, p.id), 0))]_vars
  /\ [][\A c \in Conns, p \in Payloads :
          Unsubscribe(c, p) =>
            /\ RoomName(p.type, p.id) \notin rooms'[c]
            /\ store' = store
            /\ pending' = Append(pending, Cmd("sRem", Uid(c), RoomName(p.type, p.id), 0))]_vars

\* the read of one socket is the oldest command in flight; behind it waits the
\* write of a subscribe another socket made meanwhile, and that socket is
\* joined to the room
C18_Witness ==
  \E c, d \in Conns :
    /\ c # d /\ live[c] /\ live[d]
    /\ pc[c] = "rehydrating"
    /\ Len(pending) = 2
    /\ pending[1].op = "sMembers" /\ pending[1].conn = c
    /\ pending[2].op = "sAdd" /\ pending[2].room = ProjectRoom
    /\ ProjectRoom \in explicit[d] /\ ProjectRoom \in rooms[d]
    /\ ProjectRoom \notin DurableRooms(Uid(d))

\* the reads of socket c among the commands q
NumReads(q, c) ==
  Cardinality({ k \in 1..Len(q) : q[k].op = "sMembers" /\ q[k].conn = c })

\* C20: registering a user socket sends its one read at once; no other step
\* sends a read for it; the read is in flight exactly as long as the handler
\* has not attached its listeners; and a subscribe or unsubscribe of a socket
\* is processed only after its read was answered or rejected.
C20_RehydratedOnceBeforeCommands ==
  /\ [][\A c \in Conns :
          IF nconn' = c /\ nconn = c - 1
            THEN \/ NumReads(pending', c) = 1 /\ pc'[c] = "rehydrating"
                 \/ redis = "closed" /\ readResult'[c] = "error" /\ pc'[c] = "ready"
            ELSE NumReads(pending', c) <= NumReads(pending, c)]_vars
  /\ [](\A c \in Conns :
          NumReads(pending, c) = IF pc[c] = "rehydrating" THEN 1 ELSE 0)
  /\ [][\A c \in Conns, p \in Payloads :
          (Subscribe(c, p) \/ Unsubscribe(c, p)) =>
            (pc[c] = "ready" /\ NumReads(pending, c) = 0)]_vars

\* a socket whose read was rejected went on to subscribe, while the read of
\* another socket is in flight
C20_Witness ==
  \E c, d \in Conns :
    /\ live[c] /\ readResult[c] = "error" /\ explicit[c] # {}
    /\ live[d] /\ pc[d] = "rehydrating" /\ NumReads(pending, d) = 1

\* socket c was refused at the handshake or connected without a user id
Unadmitted(c) == pc[c] \in {"refused", "anon"}

\* socket c has no registry entry, no room and no read in flight
NoStateFor(c) ==
  /\ rooms[c] = {}
  /\ \A u \in DOMAIN userSockets : c \notin userSockets[u]
  /\ NumReads(pending, c) = 0

\* what the handshake and the messages of an unadmitted socket leave alone
UnadmittedFrame ==
  /\ [][\A cred \in Credentials :
          (Handshake(cred) /\ (cred.token # "valid" \/ cred.uid = NoUid)) =>
            /\ pc'[nconn'] = IF cred.token = "valid" THEN "anon" ELSE "refused"
            /\ UNCHANGED <<rooms, userSockets, store, pending>>]_vars
  /\ [][\A c \in Conns, p \in Payloads :
          (Unadmitted(c) /\ (ClientSubscribe(c, p) \/ ClientUnsubscribe(c, p))) =>
            UNCHANGED <<rooms, userSockets, store, pending>>]_vars

\* C21 (as stated): a socket whose handshake carried no token, a token that
\* fails verification, or a token without user id is refused: it is never
\* connected, and it has no registry entry, no room, no store command and no
\* subscribe or unsubscribe listener.
C21_UnverifiedRefused ==
  /\ [](\A c \in Conns : Unadmitted(c) => (~live[c] /\ NoStateFor(c)))
  /\ UnadmittedFrame

\* C21 (amended): a handshake without token or with a token that fails
\* verification is refused and the socket never connects; a socket whose token
\* carries no user id is connected but not registered; neither has a registry
\* entry, a room, a store command or a subscribe or unsubscribe listener.
C21_UnverifiedGetsNoState ==
  /\ [](\A c \in Conns :
          /\ pc[c] = "refused" => ~live[c]
          /\ Unadmitted(c) => NoStateFor(c))
  /\ UnadmittedFrame

\* one handshake was refused; a socket without user id is connected, it sent a
\* command, and nothing is registered or in flight
C21_Witness ==
  \E c1, c2 \in Conns :
    /\ pc[c1] = "refused" /\ ~live[c1]
    /\ pc[c2] = "anon" /\ live[c2]
    /\ ncmd = 1
    /\ userSockets = <<>> /\ pending = <<>>

\* C22: a subscribe a client sends on a live registered user socket, at any
\* time from registration on, joins the socket to the room it names.
C22_EverySubscribeJoins ==
  [][\A c \in Conns, p \in Payloads :
       (live[c] /\ Registered(c) /\ ClientSubscribe(c, p)) =>
         RoomName(p.type, p.id) \in rooms'[c]]_vars

\* this step rejects the sRem at the head of the commands in flight
RemRejected ==
  /\ pending # <<>> /\ Head(pending).op = "sRem"
  /\ pending' = Tail(pending)
  /\ redis # "ready"

\* C23: an unsubscribe takes its socket out of the room whatever the state of
\* the store, the socket stays connected and is no longer addressed by events
\* for the room; the rejection of its sRem leaves the store, the rooms, the
\* registry and the connections as they were; and a rehydration read joins
\* its socket to every room the durable set still holds.
C23_DegradedUnsubscribe ==
  /\ [][\A c \in Conns, p \in Payloads :
          Unsubscribe(c, p) =>
            /\ RoomName(p.type, p.id) \notin rooms'[c]
            /\ live'[c] /\ c \notin Recipients(RoomName(p.type, p.id))']_vars
  /\ [][RemRejected =>
          (store' = store /\ rooms' = rooms /\ live' = live /\ userSockets' = userSockets)]_vars
  /\ [][\A c \in Conns :
          (ReadOk(c) /\ live[c]) => DurableRooms(Uid(c)) \subseteq rooms'[c]]_vars

\* the first socket unsubscribed project:77 and its sRem was rejected: it is
\* connected and out of the room, the room is still in the durable set, and
\* the socket of the same identity opened afterwards was joined to it
C23_Witness ==
  /\ nconn = 2 /\ live[1] /\ live[2] /\ Uid(1) = Uid(2)
  /\ ProjectRoom \notin rooms[1]
  /\ ProjectRoom \in unsubbed[Uid(1)] /\ ProjectRoom \notin unsubOK[Uid(1)]
  /\ ~HasCmd(pending, "sRem", Uid(1), ProjectRoom)
  /\ ProjectRoom \in DurableRooms(Uid(1))
  /\ readResult[2] = "ok" /\ ProjectRoom \in unsubAtOpen[2]
  /\ ProjectRoom \in rooms[2]

\* C24: every connected registered socket is in the personal room of its
\* identity.
C24_AlwaysInPersonalRoom ==
  \A c \in Conns :
    (live[c] /\ Registered(c)) => PersonalRoom(Uid(c)) \in rooms[c]

\* C25: the delay before every attempt up to the ceiling is at most the
\* maximum; below the maximum the delays of successive attempts are in
\* constant ratio (they grow exponentially); beyond the ceiling no attempt is
\* scheduled.
C25_BoundedExponentialBackoff ==
  /\ []((redis = "reconnecting" /\ retries <= MaxRetries) =>
          reconnectStrategy(retries) <= BackoffCap)
  /\ [](retries > MaxRetries => reconnectStrategy(retries) = GiveUp)
  /\ [][(/\ RedisRetryFailed
          /\ retries >= 2 /\ retries' <= MaxRetries
          /\ reconnectStrategy(retries') < BackoffCap) =>
            reconnectStrategy(retries') * reconnectStrategy(retries - 1) =
              reconnectStrategy(retries) * reconnectStrategy(retries)]_vars

\* C26: a call of joinUserSocketsToRoom(u, r) with the store reachable joins
\* every connected socket of u to r and sends the sAdd that puts r in the
\* durable set of u, whether or not u has a socket at the time.
C26_ServerJoinPersists ==
  [][\A u \in Identities, r \in JoinRooms :
       (joinUserSocketsToRoom(u, r) /\ redis = "ready") =>
         /\ \A c \in LiveConnsOf(u) : r \in rooms'[c]
         /\ r \in Settled(store', pending')[userRoomsKey(u)]]_vars

\* C27: a subscribe or an unsubscribe of socket c leaves the rooms of every
\* other socket, and the registry, as they were.
C27_CommandTouchesOwnRoomsOnly ==
  [][\A c \in Conns, p \in Payloads :
       (Subscribe(c, p) \/ Unsubscribe(c, p)) =>
         /\ \A d \in Conns \ {c} : rooms'[d] = rooms[d]
         /\ userSockets' = userSockets]_vars

\* of two connected sockets of one identity the second subscribed to
\* project:77 and its write was applied; the first is not in the room
C27_Witness ==
  /\ nconn = 2 /\ live[1] /\ live[2] /\ Uid(1) = Uid(2)
  /\ pc[1] = "ready" /\ {1, 2} \subseteq connectionsFor(Uid(1))
  /\ ProjectRoom \in explicit[2] /\ ProjectRoom \in rooms[2]
  /\ ProjectRoom \notin rooms[1]
  /\ ProjectRoom \in DurableRooms(Uid(1))

\* C28: no connected socket is in the personal room of another identity, and
\* a workspace:invited event for user:j reaches no socket of another identity.
C28_PersonalRoomsPrivate ==
  /\ [](\A c \in Conns, j \in Identities :
          (live[c] /\ Registered(c) /\ Uid(c) # j) => PersonalRoom(j) \notin rooms[c])
  /\ [][\A j \in Identities :
          MemberInvited(j) =>
            \A c \in Conns : (Registered(c) /\ Uid(c) # j) => inbox'[c] = inbox[c]]_vars

\* C29: an ai:result message on a socket that is not a worker's publishes
\* nothing: no event is emitted, no inbox and no room changes.
C29_OnlyWorkersInject ==
  [][\A c \in Conns, m \in AiResults :
       (AiResultOn(c, m) /\ ~handshake[c].isWorker) =>
         (published' = published /\ inbox' = inbox /\ rooms' = rooms)]_vars

\* a registered user socket sent an ai:result message, the only message of
\* the behaviour, and nothing was published
C29_Witness ==
  /\ ncmd = 1 /\ published = <<>>
  /\ \A u \in Identities : everSub[u] = {}
  /\ \A c \in Conns : ~handshake[c].isWorker
  /\ \E c \in Conns : live[c] /\ pc[c] = "ready"

\* C30: the writes of the commands of one identity reach the store in the
\* order the commands were processed: right after a subscribe the commands in
\* flight lead to a durable set with r, right after an unsubscribe to one
\* without r, and applying the oldest command does not change where the rest
\* lead; so with both writes applied r is stored exactly when the subscribe
\* came last.
C30_WritesInCommandOrder ==
  /\ [][\A c \in Conns, p \in Payloads :
          /\ Subscribe(c, p) =>
                RoomName(p.type, p.id) \in Settled(store', pending')[userRoomsKey(Uid(c))]
          /\ Unsubscribe(c, p) =>
                RoomName(p.type, p.id) \notin Settled(store', pending')[userRoomsKey(Uid(c))]]_vars
  /\ [][StoreReplyOk => Settled(store', pending') = Settled(store, pending)]_vars
  /\ [](\A u \in Identities :
          pending = <<>> =>
            (subOK[u] \subseteq DurableRooms(u) /\ unsubOK[u] \cap DurableRooms(u) = {}))

\* the only socket subscribed to project:77 and then unsubscribed it; both
\* writes were applied and the durable set is empty
C30_Witness ==
  /\ nconn = 1 /\ live[1] /\ ncmd = 2
  /\ ProjectRoom \in addApplied[Uid(1)] /\ ProjectRoom \in unsubOK[Uid(1)]
  /\ ProjectRoom \notin rooms[1]
  /\ pending = <<>> /\ DurableRooms(Uid(1)) = {}

====
